---- MODULE Spec2Model ----
(***************************************************************************)
(* A model of dll::rbm (include/dll/rbm.inl): the parameter store (w, b,   *)
(* c and the gradient buffers of the DBN mode), the Gibbs sampler          *)
(* (activate_hidden, activate_visible), reconstruct, free_energy,          *)
(* init_weights and store/load.                                            *)
(*                                                                         *)
(* Numbers.  `weight` is double.  The model computes on a fixed-point      *)
(* grid: the integer n stands for the real n / One.  Products are rounded  *)
(* down to the grid (Mul), as a double product is rounded to the nearest   *)
(* double.  The one non-finite value the modelled code can produce from    *)
(* finite parameters, log of a negative number, is the string "NaN".       *)
(*                                                                         *)
(* Random numbers.  Each sampling function owns a function-local static    *)
(* engine seeded from std::time and a static generator that std::bind      *)
(* built over a COPY of that engine.  The generator's copy advances at     *)
(* each draw; the engine itself never does, so every noise generator bound *)
(* inside the unit loop starts from the seed state again.                  *)
(***************************************************************************)
EXTENDS Integers, Sequences, FiniteSets, TLC

\* ------------------------------------------------------------------ bounds
NumVisible == 2
NumHidden == 2
MaxW == 2
MaxNoise == 1
MaxExamples == 2
MaxOps == 2

\* --------------------------------------------------------- number model
One == 2
Relu1Max == 1
Relu6Max == 6
SmoothingInv == 10000

VIdx == 1..NumVisible
HIdx == 1..NumHidden

Max(a, b) == IF a < b THEN b ELSE a
Min(a, b) == IF b < a THEN b ELSE a
Mul(a, b) == (a * b) \div One

RECURSIVE Pow2(_)
Pow2(n) == IF n <= 0 THEN 1 ELSE 2 * Pow2(n - 1)

Abs(x) == IF x < 0 THEN 0 - x ELSE x

\* (One + r) * 2^q on the grid, rounded down.
ExpParts(q, r, p) == IF q >= 0 THEN (One + r) * p ELSE (One + r) \div p

\* The order-preserving grid version of exp: for x = q * One + r (0 <= r < One),
\* (One + r) * 2^q rounded down to the grid; it underflows to 0 as exp does.
Exp(x) == ExpParts(x \div One, x % One, Pow2(Abs(x \div One)))

\* e / (e + 1) for e = exp(|x|) when x >= 0, and 1 / (1 + e) when x < 0.
SigmoidOf(e, positive) ==
    IF positive THEN (One * e) \div (e + One) ELSE (One * One) \div (One + e)

\* 1 / (1 + exp(-x)) on the grid, rounded down.  Beyond |x| = One * One the
\* quotient no longer changes: the sigmoid saturates, as it does in double.
logistic_sigmoid(x) == SigmoidOf(Exp(Min(Abs(x), One * One)), x >= 0)

\* exp(x) is +inf from this binary exponent on.
MaxExponent == 24
ExpOverflows(x) == x \div One > MaxExponent

\* The non-finite double: the value std::isfinite rejects.
NaN == -1000000
IsFinite(x) == x # NaN

\* floor(log2(num / den)) for positive num and den.
RECURSIVE Log2Floor(_, _)
Log2Floor(num, den) ==
    IF num >= den
    THEN IF num >= 2 * den THEN 1 + Log2Floor(num, 2 * den) ELSE 0
    ELSE Log2Floor(2 * num, den) - 1

\* log(num / den) on the grid; NaN for a negative argument (den < 0 < num).
Log(num, den) ==
    IF num > 0 /\ den > 0 THEN One * Log2Floor(num, den) ELSE NaN

\* ------------------------------------------------------- random engines
\* std::default_random_engine: a deterministic state machine over its seed.
RngStates == 2 * MaxNoise + 1
Seeds == 0..(RngStates - 1)
NextRng(s) == (s + 1) % RngStates
\* std::uniform_real_distribution(0.0, 1.0) on an engine state: a value in [0, 1).
Uniform(s) == s % One
\* std::normal_distribution(0.0, 1.0) on an engine state.
StdNormal(s) == (s % (2 * MaxNoise + 1)) - MaxNoise

\* --------------------------------------------------------------- types
UnitTypes == {"BINARY", "GAUSSIAN", "RELU", "RELU1", "RELU6", "EXP", "SOFTMAX"}

\* The two static_asserts of the class: the (visible, hidden) pairs that compile.
StaticAssertVisible(vu) == vu # "SOFTMAX" /\ vu # "EXP"
StaticAssertHidden(hu) == hu # "GAUSSIAN"
Constructible(vu, hu) == StaticAssertVisible(vu) /\ StaticAssertHidden(hu)

ZeroV == [i \in VIdx |-> 0]
ZeroH == [j \in HIdx |-> 0]
ZeroM == [i \in VIdx |-> [j \in HIdx |-> 0]]

\* ------------------------------------------------------ activate_hidden
\* s += w(i, j) * v_a[i] for i = 0 .. n - 1
RECURSIVE HiddenSum(_, _, _, _)
HiddenSum(ww, va, j, n) ==
    IF n = 0 THEN 0 ELSE HiddenSum(ww, va, j, n - 1) + Mul(ww[n][j], va[n])

HiddenInput(bb, ww, va, j) == bb[j] + HiddenSum(ww, va, j, NumVisible)

\* h_a(j) > normal_generator() ? 1.0 : 0.0, for activation a.
Bernoulli(a, gen) ==
    [a |-> a, s |-> IF a > Uniform(gen) THEN One ELSE 0,
     gen |-> NextRng(gen), fault |-> "none"]

\* max(0, x) and max(0, x + noise()), the noise of deviation sigma.
Rectified(x, sigma, seed, gen) ==
    [a |-> Max(0, x), s |-> Max(0, x + Mul(sigma, StdNormal(seed))),
     gen |-> gen, fault |-> "none"]

\* The sample of a clamped rectifier whose activation is a.
CappedSample(x, a, u, seed) ==
    IF a = 0 \/ a = u THEN a ELSE Min(Max(0, x + StdNormal(seed)), u)

\* Mutant: the noise is added on the boundaries too.
ReluCappedNoisy(x, u, seed, gen) ==
    [a |-> Min(Max(0, x), u),
     s |-> Min(Max(0, x + StdNormal(seed)), u),
     gen |-> gen, fault |-> "none"]

\* Clamped rectifier with upper bound u: the RELU6 and RELU1 branches.
ReluCapped(x, u, seed, gen) ==
    [a |-> Min(Max(0, x), u),
     s |-> CappedSample(x, Min(Max(0, x), u), u, seed),
     gen |-> gen, fault |-> "none"]

\* A unit whose activation fails dll_assert(std::isfinite(h_a(j))).
NotFinite(gen) == [a |-> NaN, s |-> 0, gen |-> gen, fault |-> "NaN verify"]

InvalidPath(gen) == [a |-> 0, s |-> 0, gen |-> gen, fault |-> "Invalid path"]

\* One pass of the hidden unit loop's if-chain, for total input x.
HiddenUnit(hu, x, seed, gen) ==
    CASE hu = "BINARY" -> Bernoulli(logistic_sigmoid(x), gen)
      [] hu = "EXP" -> IF ExpOverflows(x) THEN NotFinite(gen) ELSE Bernoulli(Exp(x), gen)
      [] hu = "RELU" -> Rectified(x, logistic_sigmoid(x), seed, gen)
      [] hu = "RELU6" -> ReluCapped(x, Relu6Max * One, seed, gen)
      [] hu = "RELU1" -> ReluCapped(x, Relu1Max * One, seed, gen)
      [] OTHER -> InvalidPath(gen)

\* The loop state after unit j computed u.
HiddenPut(st, j, u) ==
    IF u.fault # "none"
    THEN [st EXCEPT !.fault = u.fault]
    ELSE [h_a |-> [st.h_a EXCEPT ![j] = u.a],
          h_s |-> [st.h_s EXCEPT ![j] = u.s],
          gen |-> u.gen, fault |-> "none"]

\* The unit loop from unit j on, stopping at the first fault.
RECURSIVE HiddenLoop(_, _, _, _, _, _, _)
HiddenLoop(hu, bb, ww, va, seed, j, st) ==
    IF j > NumHidden \/ st.fault # "none" THEN st
    ELSE HiddenLoop(hu, bb, ww, va, seed, j + 1,
             HiddenPut(st, j, HiddenUnit(hu, HiddenInput(bb, ww, va, j), seed, st.gen)))

\* exp_sum += exp(x) for j = 1 .. n
RECURSIVE ExpSum(_, _, _, _)
ExpSum(bb, ww, va, n) ==
    IF n = 0 THEN 0
    ELSE ExpSum(bb, ww, va, n - 1) + Exp(HiddenInput(bb, ww, va, n))

\* Mutant: the max search updates on >=, so the highest index wins a tie.
RECURSIVE MaxSearchLast(_, _, _)
MaxSearchLast(ha, j, max_j) ==
    IF j > NumHidden THEN max_j
    ELSE MaxSearchLast(ha, j + 1, IF ha[j] >= ha[max_j] THEN j ELSE max_j)

\* The max search: max_j = 0; for j = 1 ..: if h_a(j) > h_a(max_j) then max_j = j
RECURSIVE MaxSearch(_, _, _)
MaxSearch(ha, j, max_j) ==
    IF j > NumHidden THEN max_j
    ELSE MaxSearch(ha, j + 1, IF ha[j] > ha[max_j] THEN j ELSE max_j)

OneHot(k) == [j \in HIdx |-> IF j = k THEN One ELSE 0]

\* h_s = 0.0; h_s(max_j) = 1.0
SoftmaxSample(ha, gen) ==
    [h_a |-> ha, h_s |-> OneHot(MaxSearch(ha, 2, 1)), gen |-> gen, fault |-> "none"]

SoftmaxOverflows(bb, ww, va) ==
    \E j \in HIdx : ExpOverflows(HiddenInput(bb, ww, va, j))

\* The second loop: h_a(j) = exp(x) / exp_sum, NaN when every exp underflowed
\* (0 / 0) or one overflowed (inf / inf).
SoftmaxNormalize(bb, ww, va, exp_sum, gen) ==
    IF exp_sum = 0
    THEN [h_a |-> [ZeroH EXCEPT ![1] = NaN], h_s |-> ZeroH,
          gen |-> gen, fault |-> "NaN verify"]
    ELSE SoftmaxSample(
             [j \in HIdx |-> (One * Exp(HiddenInput(bb, ww, va, j))) \div exp_sum], gen)

\* The SOFTMAX branch.
HiddenSoftmax(bb, ww, va, gen) ==
    SoftmaxNormalize(bb, ww, va,
        IF SoftmaxOverflows(bb, ww, va) THEN 0 ELSE ExpSum(bb, ww, va, NumHidden), gen)

\* static activate_hidden(h_a, h_s, v_a, v_s, b, w): v_s is not read.
ActivateHiddenStatic(hu, va, vs, bb, ww, seed, gen) ==
    IF hu = "SOFTMAX" THEN HiddenSoftmax(bb, ww, va, gen)
    ELSE HiddenLoop(hu, bb, ww, va, seed, 1,
                    [h_a |-> ZeroH, h_s |-> ZeroH, gen |-> gen, fault |-> "none"])

\* ----------------------------------------------------- activate_visible
RECURSIVE VisibleSum(_, _, _, _)
VisibleSum(ww, hs, i, n) ==
    IF n = 0 THEN 0 ELSE VisibleSum(ww, hs, i, n - 1) + Mul(ww[i][n], hs[n])

VisibleInput(cc, ww, hs, i) == cc[i] + VisibleSum(ww, hs, i, NumHidden)

\* v_a(i) = x; v_s(i) = x + noise()
Gaussian(x, seed, gen) ==
    [a |-> x, s |-> x + StdNormal(seed), gen |-> gen, fault |-> "none"]

\* One pass of the visible unit loop's if-chain, for total input x.
VisibleUnit(vu, x, seed, gen) ==
    CASE vu = "BINARY" -> Bernoulli(logistic_sigmoid(x), gen)
      [] vu = "GAUSSIAN" -> Gaussian(x, seed, gen)
      [] vu = "RELU" -> Rectified(x, logistic_sigmoid(x), seed, gen)
      [] OTHER -> InvalidPath(gen)

VisiblePut(st, i, u) ==
    IF u.fault # "none"
    THEN [st EXCEPT !.fault = u.fault]
    ELSE [v_a |-> [st.v_a EXCEPT ![i] = u.a],
          v_s |-> [st.v_s EXCEPT ![i] = u.s],
          gen |-> u.gen, fault |-> "none"]

RECURSIVE VisibleLoop(_, _, _, _, _, _, _)
VisibleLoop(vu, cc, ww, hs, seed, i, st) ==
    IF i > NumVisible \/ st.fault # "none" THEN st
    ELSE VisibleLoop(vu, cc, ww, hs, seed, i + 1,
             VisiblePut(st, i, VisibleUnit(vu, VisibleInput(cc, ww, hs, i), seed, st.gen)))

\* Mutant: the total input is summed over the hidden activations h_a.
ActivateVisibleFromAct(vu, ha, hs, cc, ww, seed, gen) ==
    VisibleLoop(vu, cc, ww, ha, seed, 1,
                [v_a |-> ZeroV, v_s |-> ZeroV, gen |-> gen, fault |-> "none"])

\* activate_visible(h_a, h_s, v_a, v_s): h_a is not read; c and w are the members.
ActivateVisibleFn(vu, ha, hs, cc, ww, seed, gen) ==
    VisibleLoop(vu, cc, ww, hs, seed, 1,
                [v_a |-> ZeroV, v_s |-> ZeroV, gen |-> gen, fault |-> "none"])

\* ---------------------------------------------------------------- state
VARIABLES
    visible_unit, hidden_unit, DBN,      \* Layer::visible_unit, hidden_unit, DBN
    w, b, c,                             \* weights, hidden bias, visible bias
    v1, h1_a, h1_s, v2_a, v2_s, h2_a, h2_s,
    gr_w, gr_b,                          \* the references: the member each is bound to
    gr_w_tmp, gr_b_tmp,                  \* trial parameters
    gr_bufs,                             \* the other gradient buffers, by name
    rand_engine_h, normal_generator_h,   \* statics of activate_hidden
    rand_engine_v, normal_generator_v,   \* statics of activate_visible
    os,                                  \* the stream store wrote
    stored,                              \* history: the parameters os was written from
    last,                                \* history: the last call and its arguments
    fault,                               \* "none", or the failed assertion
    nops                                 \* calls made

units == <<visible_unit, hidden_unit, DBN>>
params == <<w, b, c>>
gibbs == <<v1, h1_a, h1_s, v2_a, v2_s, h2_a, h2_s>>
refs == <<gr_w, gr_b>>
gradient == <<gr_w_tmp, gr_b_tmp, gr_bufs>>
engines == <<rand_engine_h, normal_generator_h, rand_engine_v, normal_generator_v>>
vars == <<units, params, gibbs, refs, gradient, engines, os, stored, last, fault, nops>>

WBufNames == {"gr_w_incs", "gr_w_best", "gr_w_best_incs", "gr_w_df0", "gr_w_df3", "gr_w_s"}
BBufNames == {"gr_b_incs", "gr_b_best", "gr_b_best_incs", "gr_b_df0", "gr_b_df3", "gr_b_s"}
ProbNames == {"gr_probs_a", "gr_probs_s"}

\* Mutant: gr_w is bound to the trial weights.
GrWInitTmp == "gr_w_tmp"

\* The initializers of the reference members gr_w and gr_b.
GrWInit == "w"
GrBInit == "b"

\* What the references denote.
GrW == IF gr_w = "w" THEN w ELSE gr_w_tmp
GrB == IF gr_b = "b" THEN b ELSE gr_b_tmp

NoCall == [op |-> "construct", arg |-> <<>>, pre |-> <<>>, res |-> <<>>]

\* An RBM of Layer (vu, hu, dbn) that holds the parameters w0, b0, c0: g is the
\* content of its Gibbs buffers, tw and tb the trial parameters an optimizer has
\* left, sh and sv the seeds the two sampling functions take at first use.
Members(vu, hu, dbn, w0, b0, c0, g, tw, tb, sh, sv) ==
    /\ Constructible(vu, hu)
    /\ visible_unit = vu /\ hidden_unit = hu /\ DBN = dbn
    /\ w = w0 /\ b = b0 /\ c = c0
    /\ v1 = [i \in VIdx |-> g] /\ v2_a = [i \in VIdx |-> g] /\ v2_s = [i \in VIdx |-> g]
    /\ h1_a = [j \in HIdx |-> g] /\ h1_s = [j \in HIdx |-> g]
    /\ h2_a = [j \in HIdx |-> g] /\ h2_s = [j \in HIdx |-> g]
    /\ gr_w = GrWInit /\ gr_b = GrBInit
    /\ gr_w_tmp = (IF dbn THEN tw ELSE <<>>)
    /\ gr_b_tmp = (IF dbn THEN tb ELSE <<>>)
    /\ gr_bufs = [n \in WBufNames \cup BBufNames \cup ProbNames |->
                    IF ~dbn \/ n \in ProbNames THEN <<>>
                    ELSE IF n \in WBufNames THEN ZeroM ELSE ZeroH]
    /\ rand_engine_h = sh /\ normal_generator_h = sh
    /\ rand_engine_v = sv /\ normal_generator_v = sv
    /\ last = NoCall
    /\ fault = "none"
    /\ nops = 0

\* No stream has been written.
NoStream == os = <<>> /\ stored = <<>>

Object(vu, hu, dbn, w0, b0, c0, g, tw, tb, sh, sv) ==
    Members(vu, hu, dbn, w0, b0, c0, g, tw, tb, sh, sv) /\ NoStream

\* rbm(): b(0.0), c(0.0), and w drawn by the weight generator.
Construct(vu, hu, dbn, w0, g, tw, tb, sh, sv) ==
    Members(vu, hu, dbn, w0, ZeroH, ZeroV, g, tw, tb, sh, sv)

Running == fault = "none" /\ nops < MaxOps
\* The object and the generators as a call finds them.
Snapshot ==
    [gen_h |-> normal_generator_h, gen_v |-> normal_generator_v,
     gibbs |-> gibbs, params |-> params, gradient |-> gradient,
     refs |-> refs, os |-> os]

Called(name, arg, res) ==
    /\ last' = [op |-> name, arg |-> arg, pre |-> Snapshot, res |-> res]
    /\ nops' = nops + 1

\* ------------------------------------------------------------ sampling
\* The visible vectors a caller holds: v_a and v_s of the call.
VisibleSrc(src) == IF src = "v1" THEN <<v1, v1>> ELSE <<v2_a, v2_s>>
HiddenSrc(src) == IF src = "h1" THEN <<h1_a, h1_s>> ELSE <<h2_a, h2_s>>

\* What a call of the static activate_hidden that computed r leaves.
HiddenResult(dst, r) ==
    /\ IF dst = "h1"
       THEN h1_a' = r.h_a /\ h1_s' = r.h_s /\ UNCHANGED <<h2_a, h2_s>>
       ELSE h2_a' = r.h_a /\ h2_s' = r.h_s /\ UNCHANGED <<h1_a, h1_s>>
    /\ normal_generator_h' = r.gen
    /\ fault' = r.fault

\* activate_hidden(h_a, h_s, v_a, v_s): the live b and w.
ActivateHidden(dst, src) ==
    /\ Running
    /\ HiddenResult(dst, ActivateHiddenStatic(hidden_unit, VisibleSrc(src)[1],
                             VisibleSrc(src)[2], b, w,
                             rand_engine_h, normal_generator_h))
    /\ Called("activate_hidden", <<dst, src>>, <<>>)
    /\ UNCHANGED <<units, params, v1, v2_a, v2_s, refs, gradient,
                   rand_engine_h, rand_engine_v, normal_generator_v, os, stored>>

\* Mutant: the ternaries pick the committed parameters for Temp, the trial ones
\* otherwise.
GrSelectSwapped(Temp, grb, grw, tb, tw) ==
    [b |-> IF Temp THEN grb ELSE tb, w |-> IF Temp THEN grw ELSE tw]

\* Temp ? gr_b_tmp : gr_b and Temp ? gr_w_tmp : gr_w
GrSelect(Temp, grb, grw, tb, tw) ==
    [b |-> IF Temp THEN tb ELSE grb, w |-> IF Temp THEN tw ELSE grw]

GrHiddenWith(va, vs, p) ==
    ActivateHiddenStatic(hidden_unit, va, vs, p.b, p.w,
                         rand_engine_h, normal_generator_h)

\* gr_activate_hidden<Temp>(h_a, h_s, v_a, v_s); it compiles only with the
\* gradient buffers of the parameters' shape (DBN).
GrActivateHidden(Temp, dst, src) ==
    /\ Running
    /\ DBN
    /\ HiddenResult(dst, GrHiddenWith(VisibleSrc(src)[1], VisibleSrc(src)[2],
                             GrSelect(Temp, GrB, GrW, gr_b_tmp, gr_w_tmp)))
    /\ Called("gr_activate_hidden", <<Temp, dst, src>>, <<>>)
    /\ UNCHANGED <<units, params, v1, v2_a, v2_s, refs, gradient,
                   rand_engine_h, rand_engine_v, normal_generator_v, os, stored>>

VisibleResult(r) ==
    /\ v2_a' = r.v_a /\ v2_s' = r.v_s
    /\ normal_generator_v' = r.gen
    /\ fault' = r.fault

\* activate_visible(h_a, h_s, v_a, v_s) into v2_a, v2_s.
ActivateVisible(src) ==
    /\ Running
    /\ VisibleResult(ActivateVisibleFn(visible_unit, HiddenSrc(src)[1], HiddenSrc(src)[2],
                                       c, w, rand_engine_v, normal_generator_v))
    /\ Called("activate_visible", <<src>>, <<>>)
    /\ UNCHANGED <<units, params, v1, h1_a, h1_s, h2_a, h2_s, refs, gradient,
                   rand_engine_h, normal_generator_h, rand_engine_v, os, stored>>

\* The buffers and generators as a record, to thread through reconstruct.
Buffers ==
    [v1 |-> v1, h1_a |-> h1_a, h1_s |-> h1_s, v2_a |-> v2_a, v2_s |-> v2_s,
     h2_a |-> h2_a, h2_s |-> h2_s,
     gen_h |-> normal_generator_h, gen_v |-> normal_generator_v, fault |-> "none"]

\* v1 = items; activate_hidden(h1_a, h1_s, v1, v1)
FirstHiddenPut(st, items, r) ==
    [st EXCEPT !.v1 = items, !.h1_a = r.h_a, !.h1_s = r.h_s,
               !.gen_h = r.gen, !.fault = r.fault]
FirstHidden(st, items) ==
    FirstHiddenPut(st, items,
        ActivateHiddenStatic(hidden_unit, items, items, b, w, rand_engine_h, st.gen_h))

\* activate_visible(h1_a, h1_s, v2_a, v2_s)
VisiblePassPut(st, r) ==
    [st EXCEPT !.v2_a = r.v_a, !.v2_s = r.v_s, !.gen_v = r.gen, !.fault = r.fault]
VisiblePass(st) ==
    IF st.fault # "none" THEN st
    ELSE VisiblePassPut(st,
             ActivateVisibleFn(visible_unit, st.h1_a, st.h1_s, c, w,
                               rand_engine_v, st.gen_v))

\* activate_hidden(h2_a, h2_s, v2_a, v2_s)
SecondHiddenPut(st, r) ==
    [st EXCEPT !.h2_a = r.h_a, !.h2_s = r.h_s, !.gen_h = r.gen, !.fault = r.fault]

SecondHidden(st) ==
    IF st.fault # "none" THEN st
    ELSE SecondHiddenPut(st,
             ActivateHiddenStatic(hidden_unit, st.v2_a, st.v2_s, b, w,
                                  rand_engine_h, st.gen_h))

\* The three calls of reconstruct, each on what the one before left; a call
\* that faults ends the run with the later buffers as they were.
ReconstructSteps(items) == SecondHidden(VisiblePass(FirstHidden(Buffers, items)))

ReconstructResult(r) ==
    /\ v1' = r.v1 /\ h1_a' = r.h1_a /\ h1_s' = r.h1_s
    /\ v2_a' = r.v2_a /\ v2_s' = r.v2_s
    /\ h2_a' = r.h2_a /\ h2_s' = r.h2_s
    /\ normal_generator_h' = r.gen_h
    /\ normal_generator_v' = r.gen_v
    /\ fault' = r.fault

\* Mutant: the sample is assigned to the visible bias c as well as to v1.
ReconstructIntoBias(items) ==
    /\ Running
    /\ Len(items) = NumVisible
    /\ ReconstructResult(ReconstructSteps(items))
    /\ c' = items
    /\ Called("reconstruct", items, <<>>)
    /\ UNCHANGED <<units, w, b, refs, gradient, rand_engine_h, rand_engine_v, os, stored>>

\* reconstruct(items)
Reconstruct(items) ==
    /\ Running
    /\ IF Len(items) # NumVisible
       THEN /\ fault' = "size"
            /\ UNCHANGED <<gibbs, normal_generator_h, normal_generator_v>>
       ELSE ReconstructResult(ReconstructSteps(items))
    /\ Called("reconstruct", items, <<>>)
    /\ UNCHANGED <<units, params, refs, gradient, rand_engine_h, rand_engine_v, os, stored>>

\* energy += w(i, j) * b(j) * c(i), over j = 1 .. n for one i, then over i.
RECURSIVE EnergyRow(_, _, _, _, _)
EnergyRow(ww, bb, cc, i, n) ==
    IF n = 0 THEN 0
    ELSE EnergyRow(ww, bb, cc, i, n - 1) + Mul(Mul(ww[i][n], bb[n]), cc[i])

RECURSIVE EnergySum(_, _, _, _)
EnergySum(ww, bb, cc, n) ==
    IF n = 0 THEN 0
    ELSE EnergySum(ww, bb, cc, n - 1) + EnergyRow(ww, bb, cc, n, NumHidden)

\* Mutant: the accumulated energy is returned without the negation.
free_energy_unsigned(ww, bb, cc) == EnergySum(ww, bb, cc, NumVisible)

free_energy(ww, bb, cc) == 0 - EnergySum(ww, bb, cc, NumVisible)

FreeEnergy ==
    /\ Running
    /\ Called("free_energy", <<>>, free_energy(w, b, c))
    /\ UNCHANGED <<units, params, gibbs, refs, gradient, engines, os, stored, fault>>

\* ------------------------------------------------------- direct writes
\* The trainer and the fine-tuning optimizer write the public members in place.
WriteW(i, j, x) ==
    /\ Running
    /\ w' = [w EXCEPT ![i][j] = x]
    /\ Called("write_w", <<i, j, x>>, <<>>)
    /\ UNCHANGED <<units, b, c, gibbs, refs, gradient, engines, os, stored, fault>>

WriteB(j, x) ==
    /\ Running
    /\ b' = [b EXCEPT ![j] = x]
    /\ Called("write_b", <<j, x>>, <<>>)
    /\ UNCHANGED <<units, w, c, gibbs, refs, gradient, engines, os, stored, fault>>

WriteC(i, x) ==
    /\ Running
    /\ c' = [c EXCEPT ![i] = x]
    /\ Called("write_c", <<i, x>>, <<>>)
    /\ UNCHANGED <<units, w, b, gibbs, refs, gradient, engines, os, stored, fault>>

\* gr_w(i, j) = x: a write to the object the reference is bound to.
WriteGrW(i, j, x) ==
    /\ Running
    /\ IF gr_w = "w"
       THEN w' = [w EXCEPT ![i][j] = x] /\ UNCHANGED gr_w_tmp
       ELSE gr_w_tmp' = [gr_w_tmp EXCEPT ![i][j] = x] /\ UNCHANGED w
    /\ Called("write_gr_w", <<i, j, x>>, <<>>)
    /\ UNCHANGED <<units, b, c, gibbs, refs, gr_b_tmp, gr_bufs, engines, os, stored, fault>>

WriteGrB(j, x) ==
    /\ Running
    /\ IF gr_b = "b"
       THEN b' = [b EXCEPT ![j] = x] /\ UNCHANGED gr_b_tmp
       ELSE gr_b_tmp' = [gr_b_tmp EXCEPT ![j] = x] /\ UNCHANGED b
    /\ Called("write_gr_b", <<j, x>>, <<>>)
    /\ UNCHANGED <<units, w, c, gibbs, refs, gr_w_tmp, gr_bufs, engines, os, stored, fault>>

\* ----------------------------------------------------------- store, load
\* A raw value on the stream: ValueBytes bytes, least significant first.
Byte == 256
ValueBytes == 2
RECURSIVE ToBytes(_, _)
ToBytes(x, n) == IF n = 0 THEN <<>> ELSE <<x % Byte>> \o ToBytes(x \div Byte, n - 1)
RECURSIVE FromBytes(_)
FromBytes(bs) == IF bs = <<>> THEN 0 ELSE bs[1] + Byte * FromBytes(Tail(bs))
Pattern(x) == x % (Byte * Byte)
Value(p) == IF p >= (Byte * Byte) \div 2 THEN p - Byte * Byte ELSE p

\* binary_write_all(os, container): every element in order, raw.
RECURSIVE binary_write_all(_)
binary_write_all(xs) ==
    IF xs = <<>> THEN <<>>
    ELSE ToBytes(Pattern(xs[1]), ValueBytes) \o binary_write_all(Tail(xs))

\* binary_load_all(is, container): n elements read in order from bs.
RECURSIVE binary_load_all(_, _)
binary_load_all(bs, n) ==
    IF n = 0 THEN <<>>
    ELSE <<Value(FromBytes(SubSeq(bs, 1, ValueBytes)))>>
         \o binary_load_all(SubSeq(bs, ValueBytes + 1, Len(bs)), n - 1)

\* The elements of a fast_matrix in iteration order: row-major.
RECURSIVE Flatten(_, _)
Flatten(m, n) == IF n = 0 THEN <<>> ELSE Flatten(m, n - 1) \o m[n]
Unflatten(xs) == [i \in VIdx |-> [j \in HIdx |-> xs[(i - 1) * NumHidden + j]]]

WSize == NumVisible * NumHidden

\* store(os): w, then b, then c.
StoreStream(ww, bb, cc) ==
    binary_write_all(Flatten(ww, NumVisible)) \o binary_write_all(bb) \o binary_write_all(cc)

\* Mutant: load reads b, then w, then c.
LoadStreamBiasFirst(bs) ==
    LET nw == WSize * ValueBytes
        nb == NumHidden * ValueBytes
    IN  [b |-> binary_load_all(SubSeq(bs, 1, nb), NumHidden),
         w |-> Unflatten(binary_load_all(SubSeq(bs, nb + 1, nb + nw), WSize)),
         c |-> binary_load_all(SubSeq(bs, nw + nb + 1, Len(bs)), NumVisible)]

\* load(is): the parameters read from stream bs, in the order w, b, c.
LoadStream(bs) ==
    LET nw == WSize * ValueBytes
        nb == NumHidden * ValueBytes
    IN  [w |-> Unflatten(binary_load_all(SubSeq(bs, 1, nw), WSize)),
         b |-> binary_load_all(SubSeq(bs, nw + 1, nw + nb), NumHidden),
         c |-> binary_load_all(SubSeq(bs, nw + nb + 1, Len(bs)), NumVisible)]

LoadResult(r) == w' = r.w /\ b' = r.b /\ c' = r.c

Store ==
    /\ Running
    /\ os' = StoreStream(w, b, c)
    /\ stored' = <<w, b, c>>
    /\ Called("store", <<>>, <<>>)
    /\ UNCHANGED <<units, params, gibbs, refs, gradient, engines, fault>>

\* load from the stream a store of an RBM of the same shape wrote.
Load ==
    /\ Running
    /\ os # <<>>
    /\ LoadResult(LoadStream(os))
    /\ Called("load", <<>>, <<>>)
    /\ UNCHANGED <<units, gibbs, refs, gradient, engines, os, stored, fault>>

\* --------------------------------------------------------- init_weights
\* count of the examples whose i-th component equals 1, among the first n
RECURSIVE CountOnes(_, _, _)
CountOnes(data, i, n) ==
    IF n = 0 THEN 0
    ELSE CountOnes(data, i, n - 1) + (IF data[n][i] = One THEN 1 ELSE 0)

\* log(pi / (1 - pi)) for pi = count / size + 0.0001, as the quotient of
\* count * S + size and size * S - count * S - size for S = 1 / 0.0001.
Logit(count, size) ==
    Log(count * SmoothingInv + size, size * SmoothingInv - count * SmoothingInv - size)

InitPut(st, i, ci) ==
    [c |-> [st.c EXCEPT ![i] = ci],
     fault |-> IF IsFinite(ci) THEN "none" ELSE "NaN verify"]

\* The loop over the visible units, from unit i on, stopping at a failed assertion.
RECURSIVE InitLoop(_, _, _)
InitLoop(data, i, st) ==
    IF i > NumVisible \/ st.fault # "none" THEN st
    ELSE InitLoop(data, i + 1,
                  InitPut(st, i, Logit(CountOnes(data, i, Len(data)), Len(data))))

InitResult(r) == c' = r.c /\ fault' = r.fault

InitWeights(data) ==
    /\ Running
    /\ InitResult(InitLoop(data, 1, [c |-> c, fault |-> "none"]))
    /\ Called("init_weights", data, <<>>)
    /\ UNCHANGED <<units, w, b, gibbs, refs, gradient, engines, os, stored>>

\* ------------------------------------------------------------- inputs
Vals == (0 - MaxW)..MaxW
OnesV == [i \in VIdx |-> One]
AltV == [i \in VIdx |-> IF i % 2 = 1 THEN One ELSE 0]
\* Samples of the right length, one too short and one too long.
GoodSamples == {ZeroV, OnesV, AltV}
BadSamples == {[i \in 1..(NumVisible - 1) |-> One], [i \in 1..(NumVisible + 1) |-> One]}
Samples == GoodSamples \cup BadSamples

Checker(p, q) == [i \in VIdx |-> [j \in HIdx |-> IF (i + j) % 2 = 0 THEN p ELSE q]]
Ramp(p, d) == [j \in HIdx |-> p + (j - 1) * d]

\* Total inputs of interest: below 0, 0, inside (0, 1), 1, inside (1, 6), 6, above.
BiasLevels == {0 - One, 0, 1, One, One + 1, Relu6Max * One, Relu6Max * One + 1}

\* ======================================================================
\* Unit-type pairs: every Layer the static_asserts accept, sampled from.
InitUnits ==
    \E vu \in UnitTypes, hu \in UnitTypes, dbn \in BOOLEAN, sh \in Seeds :
        /\ Construct(vu, hu, dbn, Checker(1, 0 - 1), 0, Checker(0, 1), Ramp(1, 0), sh, sh)
        /\ NoStream

NextUnits ==
    \/ \E items \in Samples : Reconstruct(items)
    \/ \E dst \in {"h1", "h2"}, src \in {"v1", "v2"} : ActivateHidden(dst, src)
    \/ \E t \in BOOLEAN, dst \in {"h1", "h2"}, src \in {"v1", "v2"} :
          GrActivateHidden(t, dst, src)
    \/ \E src \in {"h1", "h2"} : ActivateVisible(src)

SpecUnits == InitUnits /\ [][NextUnits]_vars

\* C1: no call of activate_hidden, activate_visible or reconstruct on an RBM
\* whose unit types construction accepted reaches the "Invalid path" fault.
C1_NoInvalidPath ==
    Constructible(visible_unit, hidden_unit) => fault # "Invalid path"

\* ======================================================================
\* Clamped rectifiers: trained RBMs with RELU1 or RELU6 hidden units.
InitRelu ==
    \E hu \in {"RELU1", "RELU6"}, p \in BiasLevels, d \in {0, 1},
       w0 \in {ZeroM, Checker(1, MaxW)}, sh \in Seeds :
        Object("BINARY", hu, FALSE, w0, Ramp(p, d), ZeroV, 0, ZeroM, ZeroH, sh, sh)

NextRelu ==
    \/ \E items \in Samples : Reconstruct(items)
    \/ \E dst \in {"h1", "h2"}, src \in {"v1", "v2"} : ActivateHidden(dst, src)
    \/ \E src \in {"h1", "h2"} : ActivateVisible(src)

SpecRelu == InitRelu /\ [][NextRelu]_vars

Clamp(x, lo, hi) == IF x < lo THEN lo ELSE IF x > hi THEN hi ELSE x
Upper == IF hidden_unit = "RELU1" THEN Relu1Max * One ELSE Relu6Max * One

\* What the claim says of one hidden unit with total input x.
ReluClaim(x, a, sample) ==
    /\ a = Clamp(x, 0, Upper)
    /\ 0 <= sample /\ sample <= Upper
    /\ (a = 0 \/ a = Upper) => sample = a
    /\ (a # 0 /\ a # Upper) => sample = Clamp(x + StdNormal(rand_engine_h), 0, Upper)

\* The pairs (input, activation, sample) the last call computed.
LastHidden ==
    IF last.op = "reconstruct" /\ fault = "none"
    THEN {<<v1, h1_a, h1_s>>, <<v2_a, h2_a, h2_s>>}
    ELSE IF last.op = "activate_hidden" /\ fault = "none"
    THEN {<<VisibleSrc(last.arg[2])[1],
            HiddenSrc(last.arg[1])[1], HiddenSrc(last.arg[1])[2]>>}
    ELSE {}

InitSoftmax ==
    \E p \in BiasLevels \cup {0 - 3 * One}, d \in {0 - 1, 0, 1},
       w0 \in {ZeroM, Checker(1, MaxW)}, sh \in Seeds :
        Object("BINARY", "SOFTMAX", FALSE, w0, Ramp(p, d), ZeroV, 0, ZeroM, ZeroH, sh, sh)

NextSoftmax ==
    \/ \E items \in Samples : Reconstruct(items)
    \/ \E dst \in {"h1", "h2"}, src \in {"v1", "v2"} : ActivateHidden(dst, src)
    \/ \E src \in {"h1", "h2"} : ActivateVisible(src)

SpecSoftmax == InitSoftmax /\ [][NextSoftmax]_vars

IsOneHotAt(hs, k) == \A j \in HIdx : hs[j] = (IF j = k THEN One ELSE 0)
IsFirstMax(ha, k) ==
    /\ \A j \in HIdx : ha[j] <= ha[k]
    /\ \A j \in HIdx : j < k => ha[j] < ha[k]

InitRecon ==
    \E vu \in {"BINARY", "GAUSSIAN", "RELU"}, hu \in {"BINARY", "RELU", "SOFTMAX"},
       w0 \in {Checker(1, MaxW), Checker(MaxW, 0 - 1)}, sh \in Seeds :
        Object(vu, hu, TRUE, w0, Ramp(1, 1), [i \in VIdx |-> 1], 0 - One,
               Checker(0, 1), Ramp(0, 1), sh, sh)

NextRecon ==
    \/ \E items \in Samples : Reconstruct(items)
    \/ \E dst \in {"h1", "h2"}, src \in {"v1", "v2"} : ActivateHidden(dst, src)
    \/ \E src \in {"h1", "h2"} : ActivateVisible(src)
    \/ FreeEnergy

SpecRecon == InitRecon /\ [][NextRecon]_vars

\* C3: reconstruct, activate_hidden, activate_visible and free_energy leave w, b,
\* c and every gradient buffer as they found them; of the object only the Gibbs
\* buffers change.
C3_ParametersUntouched ==
    last.op \in {"reconstruct", "activate_hidden", "activate_visible", "free_energy"} =>
        /\ params = last.pre.params
        /\ gradient = last.pre.gradient
        /\ refs = last.pre.refs
        /\ os = last.pre.os

\* A second call, a reconstruct that rewrote the Gibbs buffers of an RBM with
\* nonzero parameters and allocated gradient buffers.
C3_Witness ==
    /\ last.op = "reconstruct" /\ fault = "none" /\ nops = 2
    /\ gibbs # last.pre.gibbs
    /\ w # ZeroM /\ b # ZeroH /\ c # ZeroV
    /\ gr_w_tmp # <<>> /\ gr_bufs["gr_w_best"] = ZeroM

FreshVisible(gen) == [v_a |-> ZeroV, v_s |-> ZeroV, gen |-> gen, fault |-> "none"]

\* What the three steps leave, each computed from the buffer the claim names.
ReconOrder ==
    LET r1 == ActivateHiddenStatic(hidden_unit, v1, v1, b, w,
                                   rand_engine_h, last.pre.gen_h)
        r2 == VisibleLoop(visible_unit, c, w, h1_s, rand_engine_v, 1,
                          FreshVisible(last.pre.gen_v))
        r3 == ActivateHiddenStatic(hidden_unit, v2_a, v2_a, b, w,
                                   rand_engine_h, r1.gen)
    IN  /\ v1 = last.arg
        /\ h1_a = r1.h_a /\ h1_s = r1.h_s
        /\ v2_a = r2.v_a /\ v2_s = r2.v_s
        /\ h2_a = r3.h_a /\ h2_s = r3.h_s

\* C10: reconstruct faults on a sample of the wrong size with every Gibbs buffer
\* as it was; otherwise, when it returns, v1 is the sample, h1 is computed from
\* v1, v2 from the hidden sample h1_s, and h2 from the visible activation v2_a.
C10_ReconstructOrder ==
    last.op = "reconstruct" =>
        IF Len(last.arg) # NumVisible
        THEN fault = "size" /\ gibbs = last.pre.gibbs
        ELSE fault = "none" => ReconOrder

\* A reconstruct that returned, in which the hidden sample differs from the
\* hidden activation, the visible sample from the visible activation, and each
\* of the seven buffers from what it held before.
C10_Witness ==
    /\ last.op = "reconstruct" /\ fault = "none"
    /\ h1_s # h1_a /\ v2_s # v2_a
    /\ \A k \in 1..7 : gibbs[k] # last.pre.gibbs[k]

\* ======================================================================
\* Trial parameters: DBN-layer RBMs whose optimizer has left a trial step.
InitTrial ==
    \E vu \in {"BINARY", "GAUSSIAN"}, hu \in {"BINARY", "RELU", "RELU6", "SOFTMAX"},
       w0 \in {ZeroM, Checker(1, MaxW)}, tw \in {Checker(0, 1), Checker(MaxW, 0 - 1)},
       sh \in Seeds :
        Object(vu, hu, TRUE, w0, Ramp(1, 1), [i \in VIdx |-> 1], 0,
               tw, Ramp(0, 1), sh, sh)

NextTrial ==
    \/ \E items \in Samples : Reconstruct(items)
    \/ \E dst \in {"h1", "h2"}, src \in {"v1", "v2"} : ActivateHidden(dst, src)
    \/ \E t \in BOOLEAN, dst \in {"h1", "h2"}, src \in {"v1", "v2"} :
          GrActivateHidden(t, dst, src)
    \/ \E src \in {"h1", "h2"} : ActivateVisible(src)

SpecTrial == InitTrial /\ [][NextTrial]_vars

\* Live parameters another state could hold.
OtherW == {ZeroM, Checker(1, MaxW), Checker(0 - 1, 1)}
OtherB == {ZeroH, Ramp(1, 1), Ramp(One, 0)}

\* The hidden activations of a call on visible activations va with bias bb and
\* weights ww, from the generator state the last call found.
HiddenActs(va, bb, ww) ==
    ActivateHiddenStatic(hidden_unit, va, va, bb, ww, rand_engine_h, last.pre.gen_h).h_a

TrialCall == last.op = "gr_activate_hidden" /\ last.arg[1] /\ fault = "none"

\* C7: gr_activate_hidden<true> computes the hidden activations from gr_w_tmp,
\* gr_b_tmp and v_a alone (a state with other w and b gives the same) and writes
\* no parameter and no trial buffer; activate_visible computes the visible
\* activations from the live w and c.
C7_TrialIsolation ==
    /\ TrialCall =>
          /\ HiddenSrc(last.arg[2])[1]
                = HiddenActs(VisibleSrc(last.arg[3])[1], gr_b_tmp, gr_w_tmp)
          /\ \A w2 \in OtherW, b2 \in OtherB :
                HiddenSrc(last.arg[2])[1]
                   = HiddenActs(VisibleSrc(last.arg[3])[1],
                                GrSelect(TRUE, b2, w2, gr_b_tmp, gr_w_tmp).b,
                                GrSelect(TRUE, b2, w2, gr_b_tmp, gr_w_tmp).w)
    /\ last.op = "gr_activate_hidden" =>
          params = last.pre.params /\ gradient = last.pre.gradient
    /\ last.op = "activate_visible" /\ fault = "none" =>
          v2_a = VisibleLoop(visible_unit, c, w, HiddenSrc(last.arg[1])[2],
                             rand_engine_v, 1, FreshVisible(last.pre.gen_v)).v_a

\* A trial call whose activations differ from those the live parameters give.
C7_Witness ==
    /\ TrialCall
    /\ gr_w_tmp # w /\ gr_b_tmp # b
    /\ HiddenSrc(last.arg[2])[1] # HiddenActs(VisibleSrc(last.arg[3])[1], b, w)

\* ======================================================================
\* The life of one RBM: constructed, perhaps beside a stream another RBM of
\* the same shape stored, then written to, loaded, initialised and sampled.
OtherParams == <<Checker(MaxW, 0 - 1), Ramp(1, 1), [i \in VIdx |-> 0 - 1]>>

OnDisk(present) ==
    IF present
    THEN /\ os = StoreStream(OtherParams[1], OtherParams[2], OtherParams[3])
         /\ stored = OtherParams
    ELSE NoStream

TrainingSets == {<<ZeroV>>, <<ZeroV, OnesV>>, <<AltV>>}

Init ==
    \E hu \in {"BINARY", "SOFTMAX"}, dbn \in BOOLEAN, present \in BOOLEAN :
        /\ Construct("BINARY", hu, dbn, Checker(1, 0 - 1), 0,
                     Checker(0, 1), Ramp(0, 1), 0, 0)
        /\ OnDisk(present)

Next ==
    \/ \E i \in VIdx, j \in HIdx : WriteW(i, j, MaxW)
    \/ \E j \in HIdx : WriteB(j, 1)
    \/ \E i \in VIdx : WriteC(i, 1)
    \/ \E i \in VIdx, j \in HIdx : WriteGrW(i, j, 0 - MaxW)
    \/ \E j \in HIdx : WriteGrB(j, 0 - 1)
    \/ Store
    \/ Load
    \/ \E data \in TrainingSets : InitWeights(data)
    \/ ActivateHidden("h1", "v1")
    \/ \E t \in BOOLEAN : GrActivateHidden(t, "h2", "v1")
    \/ ActivateVisible("h1")
    \/ \E items \in {AltV, OnesV} : Reconstruct(items)
    \/ FreeEnergy

Spec == Init /\ [][Next]_vars

\* C2: gr_w and gr_b denote w and b: they hold equal values in every state, a
\* write through either name is read through the other, and
\* gr_activate_hidden<false> computes the activations activate_hidden computes.
C2_GradientAliasesLive ==
    /\ GrW = w /\ GrB = b
    /\ last.op = "write_gr_w" => w[last.arg[1]][last.arg[2]] = last.arg[3]
    /\ last.op = "write_w" => GrW[last.arg[1]][last.arg[2]] = last.arg[3]
    /\ last.op = "write_gr_b" => b[last.arg[1]] = last.arg[2]
    /\ last.op = "write_b" => GrB[last.arg[1]] = last.arg[2]
    /\ DBN /\ fault = "none" =>
          \A v \in GoodSamples :
              GrHiddenWith(v, v, GrSelect(FALSE, GrB, GrW, gr_b_tmp, gr_w_tmp)).h_a
                 = ActivateHiddenStatic(hidden_unit, v, v, b, w,
                                        rand_engine_h, normal_generator_h).h_a

\* A write through gr_w, after an earlier call, that changed w, in a DBN layer
\* whose trial weights differ from w.
C2_Witness ==
    /\ last.op = "write_gr_w" /\ nops = 2
    /\ w # last.pre.params[1]
    /\ DBN /\ gr_w_tmp # w

\* C6: load leaves w, b and c equal to the parameters of the RBM that stored the
\* stream, whatever they were before, and the stream holds w, then b, then c.
C6_StoreLoadRoundTrip ==
    /\ last.op = "load" => params = stored
    /\ last.op = "store" =>
          LET nw == WSize * ValueBytes
              nb == NumHidden * ValueBytes
          IN  /\ Len(os) = nw + nb + NumVisible * ValueBytes
              /\ binary_load_all(SubSeq(os, 1, nw), WSize) = Flatten(w, NumVisible)
              /\ binary_load_all(SubSeq(os, nw + 1, nw + nb), NumHidden) = b
              /\ binary_load_all(SubSeq(os, nw + nb + 1, Len(os)), NumVisible) = c

\* A load that replaced different parameters, negative values among the loaded.
C6_Witness ==
    /\ last.op = "load"
    /\ w # last.pre.params[1] /\ b # last.pre.params[2] /\ c # last.pre.params[3]
    /\ \E i \in VIdx : c[i] < 0

RECURSIVE SumSet(_, _)
SumSet(f, S) ==
    IF S = {} THEN 0
    ELSE LET x == CHOOSE x \in S : TRUE IN f[x] + SumSet(f, S \ {x})

\* C9: free_energy returns -(sum over i, j of w[i,j] * b[j] * c[i]), changes
\* nothing, is 0 when b or c is all zero, and so on a freshly constructed RBM.
C9_FreeEnergy ==
    last.op = "free_energy" =>
        /\ last.res = 0 - SumSet([q \in VIdx \X HIdx |->
                                     Mul(Mul(w[q[1]][q[2]], b[q[2]]), c[q[1]])],
                                 VIdx \X HIdx)
        /\ (b = ZeroH \/ c = ZeroV) => last.res = 0
        /\ nops = 1 => last.res = 0
        /\ params = last.pre.params /\ gibbs = last.pre.gibbs
        /\ gradient = last.pre.gradient /\ os = last.pre.os /\ fault = "none"

\* A free energy that is not 0.
C9_Witness == last.op = "free_energy" /\ last.res # 0

\* ======================================================================
\* init_weights on every training set of up to MaxExamples 0/1 vectors.
Examples == {ZeroV, OnesV, AltV}

SetsOfSize(n) == [1..n -> Examples]

AllTrainingSets == UNION {SetsOfSize(n) : n \in 0..MaxExamples}

InitInit ==
    \E hu \in {"BINARY", "RELU"}, dbn \in BOOLEAN :
        /\ Construct("BINARY", hu, dbn, Checker(1, 0 - 1), 0,
                     Checker(0, 1), Ramp(0, 1), 0, 0)
        /\ NoStream

NextInit ==
    \/ \E data \in AllTrainingSets : InitWeights(data)
    \/ \E j \in HIdx : WriteB(j, 1)

SpecInit == InitInit /\ [][NextInit]_vars

\* The number of examples of data whose i-th component is 1.
OnesAt(data, i) == Cardinality({n \in 1..Len(data) : data[n][i] = One})

\* C8: init_weights on a non-empty training set of 0/1 vectors returns with the
\* finiteness assertion passed for every unit, c[i] = log(p / (1 - p)) for
\* p = ones / examples + 0.0001, and w and b as they were.
C8_InitWeightsFinite ==
    last.op = "init_weights" /\ Len(last.arg) > 0 =>
        /\ fault = "none"
        /\ \A i \in VIdx :
              /\ c[i] = Logit(OnesAt(last.arg, i), Len(last.arg))
              /\ IsFinite(c[i])
        /\ w = last.pre.params[1] /\ b = last.pre.params[2]

====
